---- MODULE Spec2Model ----
(***************************************************************************)
(* Model of include/struct.h: the node variants layout_root, dense,        *)
(* hashed, pointer, dynamic and indirect, their look_up / activate /       *)
(* get_n / clear / append members, and allocate<T>().                      *)
(*                                                                         *)
(* One hierarchy is instantiated per behaviour (variable layout):          *)
(*   "hashed"   : layout_root -> dense<., DenseN> -> hashed                *)
(*   "pointer"  : layout_root -> pointer                                   *)
(*   "dynamic"  : layout_root -> dynamic<., max_n>                         *)
(*   "indirect" : layout_root -> indirect<max_n>                           *)
(* The build is either a host build (TLANG_HOST defined) or a device       *)
(* build (variable ctx).  nthreads callers run member functions; a member  *)
(* function is executed statement by statement, so that callers            *)
(* interleave between the statements of the source.                        *)
(***************************************************************************)
EXTENDS Integers, Sequences, FiniteSets, TLC

\* ---------------------------------------------------------------- bounds
NThreads == 2
MaxCalls == 5

\* ------------------------------------------------------ program constants
DenseN == 4
max_n == 2
Null == 0

Threads == 1..NThreads
Values == {1, 2}
HIdx == {0, 5, 100}
\* the flattened indices the generated kernel supplies for the hashed
\* hierarchy: <<dense slot, hashed sub-index>>
Requests == {<<1, 5>>, <<3, 0>>, <<3, 5>>, <<3, 100>>}
\* the index of the one slot of a root or pointer node
PIdx == {0}
\* the indices of the slots of a dynamic or indirect node
CIdx == 0..(max_n - 1)
Layouts == {"root", "dense", "hashed", "pointer", "dynamic", "indirect"}

VARIABLES
  ctx,          \* "host" (TLANG_HOST defined) or "device"
  layout,       \* which hierarchy is instantiated
  nthreads,     \* number of callers
  hdata,        \* hashed::data of the hashed node in each dense slot
  pdata,        \* pointer::data
  n,            \* dynamic::n / indirect::n
  data,         \* dynamic::data / indirect::data
  oob,          \* a store went outside data[0 .. max_n-1]
  allocCalls,   \* number of calls of the block allocator's alloc()
  constructed,  \* addresses whose construction by allocate<T>() is
                \* visible to every caller
  calls,        \* number of member function calls made so far
  th,           \* per caller: the member function it is in and its locals
  requested,    \* history: <<slot, i>> for which activation was requested
  apps,         \* history: <<slot index, value>> of the appends of this phase
  pure,         \* history: only appends since the node was empty
  afterClear,   \* history: "fresh" after clear(); "touched" once another
                \* call has stored into the node since; "appended" once the
                \* first append after the clear has reserved ("appendedLate"
                \* when the node was touched before it); else "no"
  nApp        \* history: appends that reserved a slot since construction
                \* or the last clear()

cfgVars == <<ctx, layout, nthreads>>
nodeVars == <<hdata, pdata, n, data, oob>>
allocVars == <<allocCalls, constructed>>
histVars == <<requested, apps, pure, afterClear, nApp>>
vars == <<ctx, layout, nthreads, hdata, pdata, n, data, oob, allocCalls,
          constructed, calls, th, requested, apps, pure, afterClear,
          nApp>>

\* ------------------------------------------------------------- helpers
Max(a, b) == IF a >= b THEN a ELSE b

EmptyMap == [k \in {} |-> Null]

Idle == [pc |-> "idle", op |-> "none", s |-> 0, i |-> 0, loc |-> 0,
         val |-> 0, ret |-> 0]

Running(t) == th[t].pc \notin {"idle", "done"}
AllReturned == \A t \in Threads : ~Running(t)
\* mutant: the block is not value-initialised, data holds a stray address
StrayInit == Null + 1

\* new (addr) T(): value-initialisation of a struct without a user-provided
\* constructor zeroes its members, so pointer::data starts as nullptr
ValueInit == Null

\* the member functions each struct defines
Members(v) ==
  CASE v = "root"     -> {"look_up", "get_n", "activate"}
    [] v = "dense"    -> {"look_up", "get_n", "activate"}
    [] v = "hashed"   -> {"look_up", "activate", "get_n"}
    [] v = "pointer"  -> {"look_up", "get_n", "activate"}
    [] v = "dynamic"  -> {"look_up", "clear", "append", "activate", "get_n"}
    [] v = "indirect" -> {"get_n", "look_up", "clear"}

\* layout_root::look_up: &children
root_look_up(i) == "children"

\* mutant: every index addresses the first child
dense_look_up_first(i) == 0

\* dense::look_up: &children[i], the child addressed by i
dense_look_up(i) == i

root_get_n == 1
dense_get_n == DenseN
hashed_get_n(s) == Cardinality(DOMAIN hdata[dense_look_up(s)])
\* mutant: the count tells whether the slot is populated
pointer_get_n_populated == IF pdata = Null THEN 0 ELSE 1

pointer_get_n == 1
dynamic_get_n == n
indirect_get_n == n

\* physical capacity of the bounded variants
Capacity(v) ==
  CASE v = "root" -> 1
    [] v = "dense" -> DenseN
    [] v = "pointer" -> 1
    [] v = "dynamic" -> max_n
    [] v = "indirect" -> max_n

\* ----------------------------------------------------------------- Init
Init ==
  /\ ctx \in {"host", "device"}
  /\ layout \in Layouts
  /\ nthreads \in 1..NThreads
  /\ hdata = [s \in 0..(DenseN - 1) |-> EmptyMap]
  /\ pdata = ValueInit
  /\ n = 0
  /\ data \in [0..(max_n - 1) -> {0} \cup Values]
  /\ (layout \notin {"dynamic", "indirect"} => data = [k \in 0..(max_n - 1) |-> 0])
  /\ oob = FALSE
  /\ allocCalls = 0
  /\ constructed = {}
  /\ calls = 0
  /\ th = [t \in Threads |-> Idle]
  /\ requested = {}
  /\ apps = <<>>
  /\ pure = TRUE
  /\ afterClear = "no"
  /\ nApp = 0

\* the number of calls explored: MaxCalls for one caller, two fewer for
\* each further caller
CallBudget == MaxCalls - 2 * (nthreads - 1)

\* a caller may enter a member function
CanCall(t, v, m) ==
  /\ t <= nthreads
  /\ layout = v
  /\ m \in Members(v)
  /\ th[t].pc = "idle"
  /\ calls < CallBudget



Enter(t, m, s, i, pc) ==
  [Idle EXCEPT !.op = m, !.s = s, !.i = i, !.pc = pc]

\* ------------------------------------------------------- layout_root, dense
\* layout_root::activate(i): empty body
root_activate(t, i) ==
  /\ CanCall(t, "root", "activate")
  /\ calls' = calls + 1
  /\ i \in PIdx
  /\ th' = [th EXCEPT ![t] = Enter(t, "activate", 0, i, "done")]
  /\ UNCHANGED <<cfgVars, nodeVars, allocVars, histVars>>

\* dense::activate(i): empty body
dense_activate(t, i) ==
  /\ CanCall(t, "dense", "activate")
  /\ calls' = calls + 1
  /\ i \in 0..(DenseN - 1)
  /\ th' = [th EXCEPT ![t] = Enter(t, "activate", 0, i, "done")]
  /\ UNCHANGED <<cfgVars, nodeVars, allocVars, histVars>>

\* ------------------------------------------------------------ allocate<T>
\* mutant: alloc hands out the first block again
allocate_reusing(t) ==
  /\ th[t].pc = "alloc"
  /\ allocCalls' = allocCalls + 1
  /\ constructed' = constructed \cup {1}
  /\ th' = [th EXCEPT ![t].loc = 1, ![t].pc = "publish"]
  /\ UNCHANGED <<cfgVars, calls, nodeVars, histVars>>

\* alloc(sizeof(T)) hands out a fresh block; new (addr) T() constructs in it.
\* The constructing stores and the later store of the address into the node
\* are plain stores with no fence, lock or atomic between them: a single
\* caller sees them in program order, another caller may see the address
\* before the construction.
allocate(t) ==
  /\ th[t].pc = "alloc"
  /\ allocCalls' = allocCalls + 1
  /\ constructed' \in (IF nthreads = 1
                         THEN {constructed \cup {allocCalls + 1}}
                         ELSE {constructed, constructed \cup {allocCalls + 1}})
  /\ th' = [th EXCEPT ![t].loc = allocCalls + 1, ![t].pc = "publish"]
  /\ UNCHANGED <<cfgVars, calls, nodeVars, histVars>>

\* the stores of new (addr) T() become visible to the other callers
allocate_visible(a) ==
  /\ a \in (1..allocCalls) \ constructed
  /\ constructed' = constructed \cup {a}
  /\ UNCHANGED <<cfgVars, calls, nodeVars, allocCalls, th, histVars>>

\* ------------------------------------------------------------------ hashed
\* data.find(i) != data.end()
hashed_find(s, i) == i \in DOMAIN hdata[dense_look_up(s)]

\* mutant: activate(i) allocates without the test of line 98
hashed_activate_untested(t, s, i) ==
  /\ CanCall(t, "hashed", "activate")
  /\ calls' = calls + 1
  /\ <<s, i>> \in Requests
  /\ th' = [th EXCEPT ![t] = Enter(t, "activate", s, i, "alloc")]
  /\ requested' = requested \cup {<<s, i>>}
  /\ UNCHANGED <<cfgVars, nodeVars, allocVars, apps, pure, afterClear, nApp>>

\* activate(i), the test of line 98
hashed_activate(t, s, i) ==
  /\ CanCall(t, "hashed", "activate")
  /\ calls' = calls + 1
  /\ <<s, i>> \in Requests
  /\ th' = [th EXCEPT ![t] =
              Enter(t, "activate", s, i,
                    IF hashed_find(s, i) THEN "done" ELSE "alloc")]
  /\ requested' = requested \cup {<<s, i>>}
  /\ UNCHANGED <<cfgVars, nodeVars, allocVars, apps, pure, afterClear, nApp>>

\* data.insert(std::make_pair(i, ptr)): no effect when the key is present
hashed_insert(t) ==
  /\ layout = "hashed"
  /\ th[t].pc = "publish"
  /\ hdata' = IF hashed_find(th[t].s, th[t].i)
                THEN hdata
                ELSE [hdata EXCEPT ![dense_look_up(th[t].s)] =
                        (th[t].i :> th[t].loc) @@ @]
  /\ th' = [th EXCEPT ![t].pc = IF th[t].op = "look_up" THEN "ret" ELSE "done"]
  /\ UNCHANGED <<cfgVars, calls, pdata, n, data, oob, allocVars, histVars>>

\* mutant: the host build takes the device branch, without activate(i)
hashed_look_up_noactivate(t, s, i) ==
  /\ CanCall(t, "hashed", "look_up")
  /\ calls' = calls + 1
  /\ <<s, i>> \in Requests
  /\ th' = [th EXCEPT ![t] =
              [Enter(t, "look_up", s, i, "done") EXCEPT
                 !.ret = IF hashed_find(s, i)
                           THEN hdata[dense_look_up(s)][i]
                           ELSE Null]]
  /\ UNCHANGED <<cfgVars, nodeVars, allocVars, histVars>>

\* look_up(i): on the host activate(i) first; on the device the find test
hashed_look_up(t, s, i) ==
  /\ CanCall(t, "hashed", "look_up")
  /\ calls' = calls + 1
  /\ <<s, i>> \in Requests
  /\ IF ctx = "host"
       THEN /\ th' = [th EXCEPT ![t] =
                        Enter(t, "look_up", s, i,
                              IF hashed_find(s, i) THEN "ret" ELSE "alloc")]
            /\ requested' = requested \cup {<<s, i>>}
       ELSE /\ th' = [th EXCEPT ![t] =
                        [Enter(t, "look_up", s, i, "done") EXCEPT
                           !.ret = IF hashed_find(s, i)
                                     THEN hdata[dense_look_up(s)][i]
                                     ELSE Null]]
            /\ UNCHANGED requested
  /\ UNCHANGED <<cfgVars, nodeVars, allocVars, apps, pure, afterClear, nApp>>

\* return data[i]
hashed_look_up_return(t) ==
  /\ layout = "hashed"
  /\ th[t].pc = "ret"
  /\ th' = [th EXCEPT ![t].pc = "done",
                      ![t].ret = hdata[dense_look_up(th[t].s)][th[t].i]]
  /\ UNCHANGED <<cfgVars, calls, nodeVars, allocVars, histVars>>

\* ----------------------------------------------------------------- pointer

\* mutant: activate(i) without the test data == nullptr
pointer_activate_untested(t, i) ==
  /\ CanCall(t, "pointer", "activate")
  /\ calls' = calls + 1
  /\ i \in PIdx
  /\ th' = [th EXCEPT ![t] = Enter(t, "activate", 0, i, "alloc")]
  /\ requested' = requested \cup {<<0, i>>}
  /\ UNCHANGED <<cfgVars, nodeVars, allocVars, apps, pure, afterClear, nApp>>

\* activate(i), the test of line 129
pointer_activate(t, i) ==
  /\ CanCall(t, "pointer", "activate")
  /\ calls' = calls + 1
  /\ i \in PIdx
  /\ th' = [th EXCEPT ![t] =
              Enter(t, "activate", 0, i,
                    IF pdata = Null THEN "alloc" ELSE "done")]
  /\ requested' = requested \cup {<<0, i>>}
  /\ UNCHANGED <<cfgVars, nodeVars, allocVars, apps, pure, afterClear, nApp>>

\* data = allocate<child_type>(), the assignment
pointer_store(t) ==
  /\ layout = "pointer"
  /\ th[t].pc = "publish"
  /\ pdata' = th[t].loc
  /\ th' = [th EXCEPT ![t].pc = IF th[t].op = "look_up" THEN "ret" ELSE "done"]
  /\ UNCHANGED <<cfgVars, calls, hdata, n, data, oob, allocVars, histVars>>

\* look_up(i): on the host activate(i) first; then return data
pointer_look_up(t, i) ==
  /\ CanCall(t, "pointer", "look_up")
  /\ calls' = calls + 1
  /\ i \in PIdx
  /\ IF ctx = "host"
       THEN /\ th' = [th EXCEPT ![t] =
                        Enter(t, "look_up", 0, i,
                              IF pdata = Null THEN "alloc" ELSE "ret")]
            /\ requested' = requested \cup {<<0, i>>}
       ELSE /\ th' = [th EXCEPT ![t] =
                        [Enter(t, "look_up", 0, i, "done") EXCEPT
                           !.ret = pdata]]
            /\ UNCHANGED requested
  /\ UNCHANGED <<cfgVars, nodeVars, allocVars, apps, pure, afterClear, nApp>>

\* return data
pointer_look_up_return(t) ==
  /\ layout = "pointer"
  /\ th[t].pc = "ret"
  /\ th' = [th EXCEPT ![t].pc = "done", ![t].ret = pdata]
  /\ UNCHANGED <<cfgVars, calls, nodeVars, allocVars, histVars>>

\* ----------------------------------------------------------------- dynamic

\* mutant: n = std::max(n, i + 1) outside #if defined(TLANG_HOST)
dynamic_look_up_unguarded(t, i) ==
  /\ CanCall(t, "dynamic", "look_up")
  /\ calls' = calls + 1
  /\ i \in CIdx
  /\ th' = [th EXCEPT ![t] =
              [Enter(t, "look_up", 0, i, "store") EXCEPT !.loc = n]]
  /\ pure' = FALSE
  /\ apps' = <<>>
  /\ UNCHANGED <<cfgVars, nodeVars, allocVars, requested, afterClear, nApp>>

\* look_up(i): on the host the read of n in n = std::max(n, i + 1);
\* the result is &data[i]
dynamic_look_up(t, i) ==
  /\ CanCall(t, "dynamic", "look_up")
  /\ calls' = calls + 1
  /\ i \in CIdx
  /\ th' = [th EXCEPT ![t] =
              IF ctx = "host"
                THEN [Enter(t, "look_up", 0, i, "store") EXCEPT !.loc = n]
                ELSE [Enter(t, "look_up", 0, i, "done") EXCEPT !.ret = i]]
  /\ pure' = FALSE
  /\ apps' = <<>>
  /\ UNCHANGED <<cfgVars, nodeVars, allocVars, requested, afterClear, nApp>>

\* the write of n in n = std::max(n, i + 1); return &data[i]
dynamic_look_up_store(t) ==
  /\ layout = "dynamic"
  /\ th[t].pc = "store"
  /\ n' = Max(th[t].loc, th[t].i + 1)
  /\ th' = [th EXCEPT ![t].pc = "done", ![t].ret = th[t].i]
  /\ afterClear' = IF afterClear = "fresh" THEN "touched" ELSE afterClear
  /\ UNCHANGED <<cfgVars, calls, hdata, pdata, data, oob, allocVars, requested,
                 apps, pure, nApp>>

\* mutant: clear() also zeroes the slots
dynamic_clear_zeroing(t) ==
  /\ CanCall(t, "dynamic", "clear")
  /\ calls' = calls + 1
  /\ n' = 0
  /\ data' = [k \in CIdx |-> 0]
  /\ th' = [th EXCEPT ![t] = Enter(t, "clear", 0, 0, "done")]
  /\ afterClear' = "fresh"
  /\ apps' = <<>>
  /\ pure' = (\A u \in Threads : ~Running(u))
  /\ nApp' = 0
  /\ UNCHANGED <<cfgVars, hdata, pdata, oob, allocVars, requested>>

\* clear(): n = 0
dynamic_clear(t) ==
  /\ CanCall(t, "dynamic", "clear")
  /\ calls' = calls + 1
  /\ n' = 0
  /\ th' = [th EXCEPT ![t] = Enter(t, "clear", 0, 0, "done")]
  /\ afterClear' = "fresh"
  /\ apps' = <<>>
  /\ pure' = (\A u \in Threads : ~Running(u))
  /\ nApp' = 0
  /\ UNCHANGED <<cfgVars, hdata, pdata, data, oob, allocVars, requested>>

\* mutant: the slot is taken from n after the increment
dynamic_append_preinc(t, v) ==
  /\ CanCall(t, "dynamic", "append")
  /\ calls' = calls + 1
  /\ v \in Values
  /\ n' = n + 1
  /\ th' = [th EXCEPT ![t] =
              [Enter(t, "append", 0, 0, "write") EXCEPT !.loc = n + 1,
                                                        !.val = v]]
  /\ IF pure /\ Len(apps) < max_n
       THEN apps' = Append(apps, <<th'[t].loc, v>>) /\ UNCHANGED pure
       ELSE apps' = <<>> /\ pure' = FALSE
  /\ afterClear' = CASE afterClear = "fresh" -> "appended"
                      [] afterClear = "touched" -> "appendedLate"
                      [] OTHER -> "no"
  /\ nApp' = nApp + 1
  /\ UNCHANGED <<cfgVars, hdata, pdata, data, oob, allocVars, requested>>

\* append(t): atomicAdd(&n, 1) yields the old n
dynamic_append(t, v) ==
  /\ CanCall(t, "dynamic", "append")
  /\ calls' = calls + 1
  /\ v \in Values
  /\ n' = n + 1
  /\ th' = [th EXCEPT ![t] =
              [Enter(t, "append", 0, 0, "write") EXCEPT !.loc = n, !.val = v]]
  /\ IF pure /\ Len(apps) < max_n
       THEN apps' = Append(apps, <<th'[t].loc, v>>) /\ UNCHANGED pure
       ELSE apps' = <<>> /\ pure' = FALSE
  /\ afterClear' = CASE afterClear = "fresh" -> "appended"
                      [] afterClear = "touched" -> "appendedLate"
                      [] OTHER -> "no"
  /\ nApp' = nApp + 1
  /\ UNCHANGED <<cfgVars, hdata, pdata, data, oob, allocVars, requested>>

\* data[...] = t.  There is no test against max_n: a store at index max_n
\* or beyond leaves the array; index max_n is where the member n follows
\* data, so the store may land on n or elsewhere.
dynamic_append_write(t) ==
  /\ layout = "dynamic"
  /\ th[t].pc = "write"
  /\ IF th[t].loc < max_n
       THEN /\ data' = [data EXCEPT ![th[t].loc] = th[t].val]
            /\ UNCHANGED <<n, oob>>
       ELSE /\ oob' = TRUE
            /\ n' \in (IF th[t].loc = max_n THEN {n, th[t].val} ELSE {n})
            /\ UNCHANGED data
  /\ th' = [th EXCEPT ![t].pc = "done"]
  /\ afterClear' = IF afterClear = "fresh" THEN "touched" ELSE afterClear
  /\ UNCHANGED <<cfgVars, calls, hdata, pdata, allocVars, requested, apps,
                 pure, nApp>>

\* mutant: activate(i) counts the index as look_up does on the host
dynamic_activate_counting(t, i) ==
  /\ CanCall(t, "dynamic", "activate")
  /\ calls' = calls + 1
  /\ i \in CIdx
  /\ n' = Max(n, i + 1)
  /\ th' = [th EXCEPT ![t] = Enter(t, "activate", 0, i, "done")]
  /\ UNCHANGED <<cfgVars, hdata, pdata, data, oob, allocVars, histVars>>

\* activate(i): empty body
dynamic_activate(t, i) ==
  /\ CanCall(t, "dynamic", "activate")
  /\ calls' = calls + 1
  /\ i \in CIdx
  /\ th' = [th EXCEPT ![t] = Enter(t, "activate", 0, i, "done")]
  /\ UNCHANGED <<cfgVars, nodeVars, allocVars, histVars>>

\* ---------------------------------------------------------------- indirect
\* look_up(i): on the host n.load() of n.store(std::max(n.load(), i + 1));
\* the result is &data[i]
indirect_look_up(t, i) ==
  /\ CanCall(t, "indirect", "look_up")
  /\ calls' = calls + 1
  /\ i \in CIdx
  /\ th' = [th EXCEPT ![t] =
              IF ctx = "host"
                THEN [Enter(t, "look_up", 0, i, "store") EXCEPT !.loc = n]
                ELSE [Enter(t, "look_up", 0, i, "done") EXCEPT !.ret = i]]
  /\ pure' = FALSE
  /\ apps' = <<>>
  /\ UNCHANGED <<cfgVars, nodeVars, allocVars, requested, afterClear, nApp>>

\* n.store(...); return &data[i]
indirect_look_up_store(t) ==
  /\ layout = "indirect"
  /\ th[t].pc = "store"
  /\ n' = Max(th[t].loc, th[t].i + 1)
  /\ th' = [th EXCEPT ![t].pc = "done", ![t].ret = th[t].i]
  /\ afterClear' = IF afterClear = "fresh" THEN "touched" ELSE afterClear
  /\ UNCHANGED <<cfgVars, calls, hdata, pdata, data, oob, allocVars, requested,
                 apps, pure, nApp>>

\* clear(): n.store(0)
indirect_clear(t) ==
  /\ CanCall(t, "indirect", "clear")
  /\ calls' = calls + 1
  /\ n' = 0
  /\ th' = [th EXCEPT ![t] = Enter(t, "clear", 0, 0, "done")]
  /\ afterClear' = "fresh"
  /\ apps' = <<>>
  /\ pure' = (\A u \in Threads : ~Running(u))
  /\ nApp' = 0
  /\ UNCHANGED <<cfgVars, hdata, pdata, data, oob, allocVars, requested>>

\* the member function returns to its caller; the model bounds the delay
\* of the constructing stores: they are visible once the call has returned
Return(t) ==
  /\ th[t].pc = "done"
  /\ th' = [th EXCEPT ![t] = Idle]
  /\ constructed' = IF layout \in {"hashed", "pointer"} /\ th[t].loc # 0
                       THEN constructed \cup {th[t].loc}
                       ELSE constructed
  /\ UNCHANGED <<cfgVars, calls, nodeVars, allocCalls, histVars>>

Next ==
  \/ \E t \in Threads, i \in PIdx : root_activate(t, i)
  \/ \E t \in Threads, i \in 0..(DenseN - 1) : dense_activate(t, i)
  \/ \E t \in Threads : allocate(t)
  \/ \E a \in 1..MaxCalls : allocate_visible(a)
  \/ \E t \in Threads, r \in Requests : hashed_activate(t, r[1], r[2])
  \/ \E t \in Threads : hashed_insert(t)
  \/ \E t \in Threads, r \in Requests : hashed_look_up(t, r[1], r[2])
  \/ \E t \in Threads : hashed_look_up_return(t)
  \/ \E t \in Threads, i \in PIdx : pointer_activate(t, i)
  \/ \E t \in Threads : pointer_store(t)
  \/ \E t \in Threads, i \in PIdx : pointer_look_up(t, i)
  \/ \E t \in Threads : pointer_look_up_return(t)
  \/ \E t \in Threads, i \in CIdx : dynamic_look_up(t, i)
  \/ \E t \in Threads : dynamic_look_up_store(t)
  \/ \E t \in Threads : dynamic_clear(t)
  \/ \E t \in Threads, v \in Values : dynamic_append(t, v)
  \/ \E t \in Threads : dynamic_append_write(t)
  \/ \E t \in Threads, i \in CIdx : dynamic_activate(t, i)
  \/ \E t \in Threads, i \in CIdx : indirect_look_up(t, i)
  \/ \E t \in Threads : indirect_look_up_store(t)
  \/ \E t \in Threads : indirect_clear(t)
  \/ \E t \in Threads : Return(t)

Spec == Init /\ [][Next]_vars

\* ------------------------------------------------------ state functions
\* the child references published in the node(s)
Published ==
  IF layout = "hashed"
    THEN UNION {{hdata[s][i] : i \in DOMAIN hdata[s]} : s \in 0..(DenseN - 1)}
    ELSE {pdata} \ {Null}

\* the activated slots
ActiveSlots ==
  IF layout = "hashed"
    THEN {r \in (0..(DenseN - 1)) \X HIdx : hashed_find(r[1], r[2])}
    ELSE IF pdata = Null THEN {} ELSE {<<0, 0>>}

\* the reference look_up(i) yields for slot <<s, i>> (Null: absent)
SlotRef(s, i) ==
  CASE layout = "hashed" ->
         IF hashed_find(s, i) THEN hdata[dense_look_up(s)][i] ELSE Null
    [] layout = "pointer" -> pdata
    [] OTHER -> i

Done(t, m) == th[t].pc = "done" /\ th[t].op = m

\* ======================================================================
\* C1  Hashed / Pointer: N concurrent activate(i) on an absent slot make
\* exactly one allocator call for the slot, leave no allocated child
\* unpublished, and the callers' look_up(i) all yield the same child.
\* (Stated as the claim states it; the code violates it.)
C1_OneAllocationPerSlot ==
  layout \in {"hashed", "pointer"} =>
    /\ AllReturned => allocCalls = Cardinality(ActiveSlots)
    /\ AllReturned => (1..allocCalls) \subseteq Published
    /\ \A t, u \in Threads :
         ( /\ Done(t, "look_up") /\ Done(u, "look_up")
           /\ th[t].s = th[u].s /\ th[t].i = th[u].i
           /\ th[t].ret # Null /\ th[u].ret # Null )
         => th[t].ret = th[u].ret

C3_AppendOverflowRejected ==
  layout = "dynamic" =>
    /\ (pure /\ Len(apps) = max_n) => dynamic_get_n = max_n
    /\ ~oob
    /\ dynamic_get_n <= max_n

\* ======================================================================
\* C4  Device build, Hashed / Pointer: look_up(i) on an index for which no
\* activate(i) has been performed returns nullptr.
C4_DeviceLookUpAbsentIsNull ==
  (ctx = "device" /\ layout \in {"hashed", "pointer"}) =>
    \A t \in Threads :
      (Done(t, "look_up") /\ <<th[t].s, th[t].i>> \notin requested)
        => th[t].ret = Null

\* a look_up of a never-activated index has returned, beside an activated one
C4_Witness ==
  /\ ctx = "device" /\ layout = "hashed"
  /\ \E t \in Threads :
       /\ Done(t, "look_up")
       /\ <<th[t].s, th[t].i>> \notin requested
       /\ th[t].ret = Null
       /\ \E r \in requested : r[1] = th[t].s /\ SlotRef(r[1], r[2]) # Null

\* ======================================================================
\* C5  Device build: look_up(i) of any variant is a single read; it changes
\* no node state (children, counts, slot contents) and calls no allocator.
LookUpEntered(t) ==
  th[t].pc = "idle" /\ th'[t].pc # "idle" /\ th'[t].op = "look_up"

C5_DeviceLookUpIsPure ==
  [][ ctx = "device" =>
        \A t \in Threads :
          LookUpEntered(t) =>
            /\ th'[t].pc = "done"
            /\ UNCHANGED <<hdata, pdata, n, data, oob, allocCalls,
                           constructed>> ]_vars

\* a device look_up beyond the current count has returned; the count stays
C5_Witness ==
  /\ ctx = "device" /\ layout = "dynamic"
  /\ dynamic_get_n = 1
  /\ \E t \in Threads : Done(t, "look_up") /\ th[t].i = 1 /\ th[t].ret = 1

\* ======================================================================
\* C6  Host build, Hashed / Pointer: look_up(i) runs activate(i) first; on
\* an absent slot it allocates and publishes a child, it returns the
\* slot's non-null child, and that is the child an explicit activate(i)
\* publishes (the one allocated by the activation).
C6_HostLookUpActivates ==
  [][ (ctx = "host" /\ layout \in {"hashed", "pointer"}) =>
        \A t \in Threads :
          /\ LookUpEntered(t) =>
               th'[t].pc = IF SlotRef(th'[t].s, th'[t].i) = Null
                             THEN "alloc" ELSE "ret"
          /\ (th[t].pc = "publish" /\ th'[t].pc # "publish") =>
               /\ SlotRef(th[t].s, th[t].i)' # Null
               /\ nthreads = 1 => SlotRef(th[t].s, th[t].i)' = th[t].loc
               /\ th'[t].pc = IF th[t].op = "look_up" THEN "ret" ELSE "done"
          /\ (th[t].pc = "ret" /\ th'[t].pc = "done") =>
               /\ th'[t].ret # Null
               /\ th'[t].ret = SlotRef(th[t].s, th[t].i)
               /\ UNCHANGED <<hdata, pdata>>
               /\ (nthreads = 1 /\ th[t].loc # 0) => th'[t].ret = th[t].loc
    ]_vars

\* a host look_up of an absent slot has returned the child it allocated
C6_Witness ==
  /\ ctx = "host" /\ layout = "hashed"
  /\ \E t \in Threads :
       /\ Done(t, "look_up")
       /\ th[t].loc # 0
       /\ th[t].ret = th[t].loc
       /\ SlotRef(th[t].s, th[t].i) = th[t].ret

\* ======================================================================
\* C7  as amended: in a serial execution, for every bounded variant that
\* defines activate (root, dense, pointer, dynamic; indirect defines
\* none) and for hashed, once slot i is active every look_up(i) returns the
\* same child reference, and a further activate(i) changes neither the
\* node nor that reference.
Active(s, i) ==
  CASE layout = "hashed" -> hashed_find(s, i)
    [] layout = "pointer" -> pdata # Null
    [] OTHER -> TRUE

Slots ==
  CASE layout = "hashed" -> (0..(DenseN - 1)) \X HIdx
    [] layout = "pointer" -> {0} \X PIdx
    [] OTHER -> {0} \X CIdx

C8_CountWithinCapacity ==
  /\ root_get_n <= Capacity("root")
  /\ dense_get_n <= Capacity("dense")
  /\ pointer_get_n <= Capacity("pointer")
  /\ layout = "dynamic" => dynamic_get_n <= Capacity("dynamic")
  /\ layout = "indirect" => indirect_get_n <= Capacity("indirect")

C10_HashedCountsDistinct ==
  (layout = "hashed" /\ nthreads = 1 /\ AllReturned) =>
    \A s \in 0..(DenseN - 1) :
      /\ hashed_get_n(s) = Cardinality({r \in requested : r[1] = s})
      /\ DOMAIN hdata[s] = {r[2] : r \in {x \in requested : x[1] = s}}

\* sub-index 5 requested twice under slot 1 and {0, 5, 100} under slot 3
C10_Witness ==
  /\ layout = "hashed" /\ nthreads = 1
  /\ requested = {<<1, 5>>, <<3, 0>>, <<3, 5>>, <<3, 100>>}
  /\ calls = 5
  /\ Done(1, "activate") /\ th[1].s = 1 /\ th[1].i = 5 /\ th[1].loc = 0
  /\ hashed_get_n(1) = 1 /\ hashed_get_n(3) = 3
  /\ hashed_get_n(0) = 0 /\ hashed_get_n(2) = 0

C13_FixedCountsConstant ==
  /\ layout = "root" => root_get_n = 1
  /\ layout = "dense" => dense_get_n = DenseN
  /\ layout = "pointer" =>
       /\ pdata = Null => pointer_get_n = 1
       /\ pdata # Null => pointer_get_n = 1

\* a device look_up on the unpopulated pointer node has returned nullptr
\* while get_n() is 1
C13_Witness ==
  /\ layout = "pointer" /\ ctx = "device"
  /\ pdata = Null /\ pointer_get_n = 1
  /\ \E t \in Threads : Done(t, "look_up") /\ th[t].ret = Null

\* ======================================================================
\* C14  Hashed / Pointer: the child is constructed before it is published;
\* in every reachable state, also between the steps of concurrent
\* activate / look_up calls, every non-null reference look_up can yield
\* refers to a child whose construction the caller sees.  (Stated as the
\* claim states it; the code orders the two stores for the activating
\* caller only.)
C14_ConstructBeforePublish ==
  layout \in {"hashed", "pointer"} =>
    /\ Published \subseteq constructed
    /\ \A t \in Threads :
         (Done(t, "look_up") /\ th[t].ret # Null) => th[t].ret \in constructed

\* ======================================================================
\* C15  Hashed / Pointer, serial: activate (and the host look_up) calls
\* the allocator exactly once when the slot is absent and not at all when
\* it is active; the allocator calls made for the hashed nodes number their
\* get_n(), those for a pointer node at most 1.
RECURSIVE HashedCount(_)
HashedCount(k) ==
  IF k = 0 THEN 0 ELSE hashed_get_n(k - 1) + HashedCount(k - 1)

Publishing == Cardinality({t \in Threads : th[t].pc = "publish"})

C15_OneAllocatorCallPerChild ==
  (nthreads = 1 /\ layout \in {"hashed", "pointer"}) =>
    /\ layout = "hashed" => allocCalls = HashedCount(DenseN) + Publishing
    /\ layout = "pointer" =>
         /\ allocCalls = (IF pdata = Null THEN 0 ELSE 1) + Publishing
         /\ allocCalls <= 1
    /\ \A t \in Threads :
         th[t].pc \in {"alloc", "publish"} => ~Active(th[t].s, th[t].i)

\* a repeated activate of an active hashed slot has returned without a
\* further allocator call
C15_Witness ==
  /\ nthreads = 1 /\ layout = "hashed"
  /\ allocCalls = 2 /\ HashedCount(DenseN) = 2
  /\ \E t \in Threads :
       /\ Done(t, "activate") /\ th[t].loc = 0
       /\ Active(th[t].s, th[t].i)

\* ======================================================================
\* C16  Hashed / Pointer, serial: activation is monotonic and references
\* are stable: a slot that holds a non-null child keeps that child, every
\* look_up(i) that returns non-null returns the slot's child (so a later
\* look_up(i) returns the reference an earlier one returned), and get_n()
\* of a hashed node never decreases.
C16_ReferencesStable ==
  [][ (nthreads = 1 /\ layout \in {"hashed", "pointer"}) =>
        /\ \A r \in Slots :
             SlotRef(r[1], r[2]) # Null =>
               SlotRef(r[1], r[2])' = SlotRef(r[1], r[2])
        /\ \A t \in Threads :
             (th[t].pc # "done" /\ Done(t, "look_up")'
                /\ th'[t].ret # Null) =>
               (th[t].ret = SlotRef(th[t].s, th[t].i))'
        /\ \A s \in 0..(DenseN - 1) : hashed_get_n(s)' >= hashed_get_n(s)
    ]_vars

\* after two more activations a look_up of an active slot has returned the
\* child the slot has held since its activation
C16_Witness ==
  /\ nthreads = 1 /\ layout = "hashed" /\ allocCalls = 3
  /\ \E t \in Threads :
       /\ Done(t, "look_up") /\ th[t].loc = 0
       /\ th[t].ret = 1
       /\ SlotRef(th[t].s, th[t].i) = th[t].ret

\* ======================================================================
\* C17  Hashed, serial: distinct activated indices never share a child;
\* every child the allocator hands out is a fresh block.
C17_ChildrenDistinct ==
  (layout = "hashed" /\ nthreads = 1) =>
    \A r, q \in ActiveSlots :
      r # q => SlotRef(r[1], r[2]) # SlotRef(q[1], q[2])

\* three sub-indices of one hashed node and one of another are active
C17_Witness ==
  /\ layout = "hashed" /\ nthreads = 1
  /\ Cardinality(ActiveSlots) = 4
  /\ Cardinality(Published) = 4
  /\ hashed_get_n(3) = 3

\* ======================================================================
\* C18  Host build, serial, Dynamic / Indirect: look_up(i) sets the count
\* to max(old count, i + 1) and leaves the slots unchanged; the count
\* never decreases except through clear().  (Stated as the claim states
\* it; the store of an append beyond max_n can lower the count.)
C18_HostLookUpRaisesCount ==
  [][ (ctx = "host" /\ nthreads = 1 /\ layout \in {"dynamic", "indirect"}) =>
        /\ \A t \in Threads :
             /\ LookUpEntered(t) =>
                  /\ th'[t].pc = "store"
                  /\ UNCHANGED <<n, data>>
             /\ (th[t].pc = "store" /\ th'[t].pc = "done") =>
                  /\ n' = Max(n, th[t].i + 1)
                  /\ data' = data
        /\ n' < n => \E t \in Threads : th[t].pc = "idle" /\ th'[t].op = "clear"
    ]_vars

\* ======================================================================
\* C19  Host build, Indirect: two concurrent look_up(i) and look_up(j) on
\* one node lose no count update; once both have completed get_n() is at
\* least max(i, j) + 1.  (Stated as the claim states it; the load and the
\* store of n are two separate atomic operations.)
C19_NoLostCountUpdate ==
  (ctx = "host" /\ layout = "indirect" /\ calls = 2) =>
    \A t, u \in Threads :
      (t # u /\ Done(t, "look_up") /\ Done(u, "look_up")) =>
        indirect_get_n >= Max(th[t].i, th[u].i) + 1

====
